---- MODULE Spec2Model ----
(***************************************************************************)
(* Classification forest of ranger: the node splitter and leaf estimate of *)
(* TreeClassification, and the vote aggregation, out-of-bag error and      *)
(* forest loading of ForestClassification.                                 *)
(*                                                                         *)
(* Doubles that hold data values, class values and thresholds are small    *)
(* integers.  Doubles that hold quotients (the impurity decrease, the Gini *)
(* importance) are kept exactly, multiplied by Scale, a common multiple of *)
(* every divisor that can occur.  size_t is an unsigned integer of         *)
(* SizeBits bits.                                                          *)
(***************************************************************************)
EXTENDS Integers, Sequences, FiniteSets, TLC

VARIABLES
  mode,                \* which run of the program this behaviour is: "grow", "forest", "load"
  \* ---- Data and the forest's tables (ForestClassification::initInternal)
  data,                \* rows of the dataset, data[row + 1][col + 1]
  dependent_varID,
  class_values,        \* first-seen distinct response values
  response_classIDs,   \* response_classIDs[row + 1]: position of the row's response in class_values
  \* ---- one TreeClassification while it grows
  min_node_size,
  importance_mode,
  no_split_variables,
  sampleIDs,           \* sampleIDs[nodeID + 1]
  split_varIDs,        \* split_varIDs[nodeID + 1]
  split_values,        \* split_values[nodeID + 1]
  child_nodeIDs,       \* child_nodeIDs[1] left, child_nodeIDs[2] right, each [nodeID + 1]
  variable_importance, \* variable_importance[index + 1], times Scale
  next_nodeID,         \* Tree::grow's loop index
  num_open_nodes,
  call,                \* the last splitNodeInternal call: its arguments and what it returned
  \* ---- ForestClassification after its trees have predicted
  prediction_mode,
  trees,               \* trees[tree_idx + 1]: [predictions, oob_sampleIDs] of the tree
  predictions,         \* predictions[i + 1], a vector of one double
  class_counts,        \* computePredictionErrorInternal's class_counts, as it leaves them
  classification_table,
  overall_prediction_error, \* the quotient as [num, den]
  \* ---- a saved forest
  file,                \* [num_trees, num_variables, treetype, class_values, trees]
  pc                   \* "start", then what the run did

dataVars == <<data, dependent_varID, class_values, response_classIDs>>

treeVars == <<min_node_size, importance_mode, no_split_variables, sampleIDs, split_varIDs,
              split_values, child_nodeIDs, variable_importance, next_nodeID, num_open_nodes, call>>

forestVars == <<prediction_mode, trees, predictions, class_counts, classification_table,
                overall_prediction_error>>

vars == <<mode, pc, file, dataVars, treeVars, forestVars>>

----------------------------------------------------------------------------
(* Bounds of the model *)

\* rows of an enumerated dataset
NumSamples == 3

\* the width of size_t in the model
SizeBits == 16

\* rows of a dataset whose forest is evaluated
NumForestSamples == 2

\* trees of a forest whose out-of-bag error is computed
NumOobTrees == 2

\* trees of a forest that predicts
NumPredictTrees == 4

\* trees of a saved forest
NumSavedTrees == 2

\* a saved forest and the dataset it is loaded for have 1..MaxVariables columns
MaxVariables == 3

----------------------------------------------------------------------------
(* Helpers *)

Range(s) == {s[i] : i \in 1..Len(s)}

MinOf(S) == CHOOSE x \in S : \A y \in S : x <= y

RECURSIVE SortedSeq(_)
SortedSeq(S) == IF S = {} THEN <<>> ELSE <<MinOf(S)>> \o SortedSeq(S \ {MinOf(S)})

\* every sequence that lists the elements of S once: the orders in which an
\* unordered container of S can be enumerated
Orders(S) == {s \in [1..Cardinality(S) -> S] : Range(s) = S}

RECURSIVE Gcd(_, _)
Gcd(a, b) == IF b = 0 THEN a ELSE Gcd(b, a % b)

RECURSIVE LcmUpTo(_)
LcmUpTo(n) == IF n <= 1 THEN 1 ELSE (LcmUpTo(n - 1) * n) \div Gcd(LcmUpTo(n - 1), n)

----------------------------------------------------------------------------
(* Data *)

\* Data::get(row, col)
get(row, col) == data[row + 1][col + 1]

num_samples == Len(data)

num_variables == Len(data[1])

\* Data::getAllValues(all_values, sampleIDs, varID): the distinct values of
\* column varID over the samples, ascending
getAllValues(samples, varID) == SortedSeq({get(samples[i], varID) : i \in 1..Len(samples)})

----------------------------------------------------------------------------
(* ForestClassification::initInternal *)

DEFAULT_MIN_NODE_SIZE_CLASSIFICATION == 1

\* "Set minimal node size"
InitMinNodeSize(configured) ==
  IF configured = 0 THEN DEFAULT_MIN_NODE_SIZE_CLASSIFICATION ELSE configured

\* find(class_values.begin(), class_values.end(), value) - class_values.begin()
FindClassID(cv, value) ==
  IF \E k \in 1..Len(cv) : cv[k] = value
    THEN MinOf({k \in 1..Len(cv) : cv[k] = value}) - 1
    ELSE Len(cv)

\* "Create class_values and response_classIDs": the loop over rows 0..n-1.
\* The result is <<class_values, response_classIDs>>.
RECURSIVE InitClasses(_, _, _)
InitClasses(rows, d, n) ==
  IF n = 0 THEN <<(<<>>), (<<>>)>>
  ELSE LET prev    == InitClasses(rows, d, n - 1)
           value   == rows[n][d + 1]
           classID == FindClassID(prev[1], value)
       IN  << IF classID = Len(prev[1]) THEN Append(prev[1], value) ELSE prev[1],
              Append(prev[2], classID) >>

----------------------------------------------------------------------------
(* utility.h: mostFrequentValue(class_count, random_number_generator)      *)
(* class_count is a function from the counted values to their counts;      *)
(* order is the order in which the unordered_map is enumerated and rnd the *)
(* number the generator yields.                                            *)

RECURSIVE MajorClasses(_, _, _)
\* the scan of the map: <<max_count, major_classes>> after the first n entries
MajorClasses(class_count, order, n) ==
  IF n = 0 THEN <<0, (<<>>)>>
  ELSE LET prev == MajorClasses(class_count, order, n - 1)
           c    == class_count[order[n]]
       IN  IF c > prev[1] THEN <<c, <<order[n]>> >>
           ELSE IF c = prev[1] THEN <<prev[1], Append(prev[2], order[n])>>
           ELSE prev

mostFrequentValue(class_count, order, rnd) ==
  LET major_classes == MajorClasses(class_count, order, Len(order))[2]
  IN  IF Len(major_classes) = 1 THEN major_classes[1]
      ELSE major_classes[(rnd % Len(major_classes)) + 1]

\* the keys of a map, in the enumeration order that a global order of the
\* values induces
RECURSIVE KeyOrder(_, _)
KeyOrder(keys, order) ==
  IF order = <<>> THEN <<>>
  ELSE IF Head(order) \in keys THEN <<Head(order)>> \o KeyOrder(keys, Tail(order))
  ELSE KeyOrder(keys, Tail(order))

----------------------------------------------------------------------------
(* TreeClassification *)

IMP_NONE == "IMP_NONE"

IMP_GINI == "IMP_GINI"

\* scenario S1 of the specification: six rows, column 1 the response
S1Data == << <<1, 0>>, <<2, 0>>, <<3, 0>>, <<4, 1>>, <<5, 1>>, <<6, 1>> >>

\* scenario S3 of the specification: XOR, column 2 the response
S3Data == << <<0, 0, 0>>, <<0, 1, 1>>, <<1, 0, 1>>, <<1, 1, 0>> >>

\* every sample of a node may end on one side of a split, so quotients have
\* divisors up to the largest number of rows
MaxRows == IF NumSamples > Len(S1Data) THEN NumSamples ELSE Len(S1Data)

Scale == LcmUpTo(MaxRows)

\* the response value of a sample
response(sampleID) == get(sampleID, dependent_varID)

\* TreeClassification::estimate(nodeID)
estimate(samples, order, rnd) ==
  LET keys        == {response(samples[i]) : i \in 1..Len(samples)}
      class_count == [v \in keys |-> Cardinality({i \in 1..Len(samples) : response(samples[i]) = v})]
  IN  mostFrequentValue(class_count, KeyOrder(keys, order), rnd)

num_classes == Len(class_values)

\* class_counts_left / class_counts_right after the loop over the node's samples
ClassCountsLeft(samples, varID, split_value) ==
  [k \in 0..(num_classes - 1) |->
     Cardinality({i \in 1..Len(samples) :
        get(samples[i], varID) <= split_value /\ response_classIDs[samples[i] + 1] = k})]

ClassCountsRight(samples, varID, split_value) ==
  [k \in 0..(num_classes - 1) |->
     Cardinality({i \in 1..Len(samples) :
        ~(get(samples[i], varID) <= split_value) /\ response_classIDs[samples[i] + 1] = k})]

RECURSIVE SumUpTo(_, _)
\* the sum of f[0] .. f[n - 1]
SumUpTo(f, n) == IF n = 0 THEN 0 ELSE SumUpTo(f, n - 1) + f[n - 1]

SumOfSquares(counts) == SumUpTo([k \in DOMAIN counts |-> counts[k] * counts[k]], num_classes)

\* "Decrease of impurity": sum_left / n_left + sum_right / n_right, times Scale
Decrease(counts_left, counts_right) ==
  (Scale * SumOfSquares(counts_left)) \div SumUpTo(counts_left, num_classes)
    + (Scale * SumOfSquares(counts_right)) \div SumUpTo(counts_right, num_classes)

\* TrySplitValue with "decrease >= best_decrease": the last of equally good
\* candidates wins
TrySplitValueLastWins(best, samples, varID, split_value) ==
  LET counts_left  == ClassCountsLeft(samples, varID, split_value)
      counts_right == ClassCountsRight(samples, varID, split_value)
      n_left       == SumUpTo(counts_left, num_classes)
      n_right      == SumUpTo(counts_right, num_classes)
  IN  IF n_left = 0 \/ n_right = 0 THEN best
      ELSE IF Decrease(counts_left, counts_right) >= best.decrease
        THEN [decrease |-> Decrease(counts_left, counts_right), varID |-> varID, value |-> split_value]
        ELSE best

\* the body of the loop "For all possible split values" for one value:
\* best is [decrease, varID, value]
TrySplitValue(best, samples, varID, split_value) ==
  LET counts_left  == ClassCountsLeft(samples, varID, split_value)
      counts_right == ClassCountsRight(samples, varID, split_value)
      n_left       == SumUpTo(counts_left, num_classes)
      n_right      == SumUpTo(counts_right, num_classes)
  IN  IF n_left = 0 \/ n_right = 0 THEN best
      ELSE IF Decrease(counts_left, counts_right) > best.decrease
        THEN [decrease |-> Decrease(counts_left, counts_right), varID |-> varID, value |-> split_value]
        ELSE best

RECURSIVE TrySplitValues(_, _, _, _, _)
\* the first n possible split values of one variable
TrySplitValues(best, samples, varID, values, n) ==
  IF n = 0 THEN best
  ELSE TrySplitValue(TrySplitValues(best, samples, varID, values, n - 1), samples, varID, values[n])

\* the body of the loop "For all possible split variables" for one variable
TryVariable(best, samples, varID) ==
  LET possible_split_values == getAllValues(samples, varID)
  IN  IF Len(possible_split_values) < 2 THEN best
      ELSE TrySplitValues(best, samples, varID, possible_split_values, Len(possible_split_values))

RECURSIVE TryVariables(_, _, _)
\* the first n variables of possible_split_varIDs, in the order of its enumeration
TryVariables(samples, possible_split_varIDs, n) ==
  IF n = 0 THEN [decrease |-> -Scale, varID |-> 0, value |-> 0]
  ELSE TryVariable(TryVariables(samples, possible_split_varIDs, n - 1), samples, possible_split_varIDs[n])

\* findBestSplit without "Stop if no good split found"
findBestSplitNoStop(samples, possible_split_varIDs) ==
  LET best == TryVariables(samples, possible_split_varIDs, Len(possible_split_varIDs))
  IN  [stop |-> FALSE, varID |-> best.varID, value |-> best.value, decrease |-> best.decrease]

\* TreeClassification::findBestSplit up to "Stop if no good split found":
\* [stop, varID, value, decrease]
findBestSplit(samples, possible_split_varIDs) ==
  LET best == TryVariables(samples, possible_split_varIDs, Len(possible_split_varIDs))
  IN  [stop |-> best.decrease < 0, varID |-> best.varID, value |-> best.value,
       decrease |-> best.decrease]

\* class_counts of addGiniImportance
NodeClassCounts(samples) ==
  [k \in 0..(num_classes - 1) |->
     Cardinality({i \in 1..Len(samples) : response_classIDs[samples[i] + 1] = k})]

\* best_gini = decrease - sum_node / sampleIDs[nodeID].size(), times Scale
BestGini(samples, decrease) ==
  decrease - (Scale * SumOfSquares(NodeClassCounts(samples))) \div Len(samples)

\* 2^SizeBits, the modulus of size_t arithmetic
SizeMod == 2 ^ SizeBits

\* addGiniImportance without the shift past the no-split variables
TempVarIDNoShift(varID, n) == varID

\* the for loop of addGiniImportance over the first n no_split_variables:
\* tempvarID, a size_t
RECURSIVE TempVarID(_, _)
TempVarID(varID, n) ==
  IF n = 0 THEN varID
  ELSE IF varID >= no_split_variables[n]
    THEN (TempVarID(varID, n - 1) - 1) % SizeMod
    ELSE TempVarID(varID, n - 1)

\* TreeClassification::addGiniImportance(nodeID, varID, decrease): the new
\* variable_importance
addGiniImportance(samples, varID, decrease) ==
  LET tempvarID == TempVarID(varID, Len(no_split_variables))
  IN  [variable_importance EXCEPT ![tempvarID + 1] = @ + BestGini(samples, decrease)]

\* "Check if node is pure": the loop compares every response with the one before it
IsPure(samples) ==
  \A i \in 2..Len(samples) : response(samples[i]) = response(samples[i - 1])

\* pure_value left at its initial value
PureValueInitial(samples) == 0

PureValue(samples) == IF samples = <<>> THEN 0 ELSE response(samples[Len(samples)])

\* TreeClassification::splitNodeInternal(nodeID, possible_split_varIDs), with
\* findBestSplit's saving of the best values and of the importance:
\* what it returns (stop), what it leaves in split_varIDs[nodeID],
\* split_values[nodeID] and variable_importance, and whether it ran findBestSplit.
\* order and rnd are the enumeration order of a class_count map and the
\* generator's number, for estimate.
splitNodeInternal(nodeID, possible_split_varIDs, order, rnd) ==
  LET samples == sampleIDs[nodeID + 1]
      leaf(value, searched) ==
        [stop |-> TRUE, split_varID |-> split_varIDs[nodeID + 1], split_value |-> value,
         importance |-> variable_importance, searched |-> searched, decrease |-> 0]
  IN  IF Len(samples) <= min_node_size THEN leaf(estimate(samples, order, rnd), FALSE)
      ELSE IF IsPure(samples) THEN leaf(PureValue(samples), FALSE)
      ELSE LET best == findBestSplit(samples, possible_split_varIDs)
           IN  IF best.stop THEN leaf(estimate(samples, order, rnd), TRUE)
               ELSE [stop |-> FALSE, split_varID |-> best.varID, split_value |-> best.value,
                     importance |-> IF importance_mode = IMP_GINI
                                      THEN addGiniImportance(samples, best.varID, best.decrease)
                                      ELSE variable_importance,
                     searched |-> TRUE, decrease |-> best.decrease]

----------------------------------------------------------------------------
(* Tree: the growing of one tree around splitNodeInternal *)

\* the variables Tree::createPossibleSplitVarSubset may draw
AllowedVarIDs ==
  (0..(num_variables - 1)) \ ({dependent_varID} \cup Range(no_split_variables))

\* the subsets it can draw (mtry of the allowed variables), each in every
\* order in which the unordered_set can be enumerated
PossibleSplitVarIDs ==
  UNION {Orders(S) : S \in (SUBSET AllowedVarIDs) \ {{}}}

\* the samples of a node that go to the left child, in their order
RECURSIVE SamplesLeft(_, _, _)
SamplesLeft(samples, varID, value) ==
  IF samples = <<>> THEN <<>>
  ELSE (IF get(Head(samples), varID) <= value THEN <<Head(samples)>> ELSE <<>>)
         \o SamplesLeft(Tail(samples), varID, value)

RECURSIVE SamplesRight(_, _, _)
SamplesRight(samples, varID, value) ==
  IF samples = <<>> THEN <<>>
  ELSE (IF get(Head(samples), varID) <= value THEN <<>> ELSE <<Head(samples)>>)
         \o SamplesRight(Tail(samples), varID, value)

\* no forest file is read in this run
NoFile == [num_trees |-> 0, num_variables |-> 0, treetype |-> 0, class_values |-> <<>>, trees |-> <<>>]

\* no forest is looked at in this run
NoForest ==
  /\ prediction_mode = FALSE
  /\ trees = <<>>
  /\ predictions = <<>>
  /\ class_counts = <<>>
  /\ classification_table = <<>>
  /\ overall_prediction_error = [num |-> 0, den |-> 1]

NoCall == [nodeID |-> -1, samples |-> <<>>, possible_split_varIDs |-> <<>>, stop |-> FALSE,
           searched |-> FALSE, decrease |-> 0, importance_before |-> <<>>]

\* Tree::splitNode(nodeID) for the next open node of Tree::grow
SplitNode ==
  /\ mode = "grow"
  /\ num_open_nodes > 0
  /\ \E possible \in PossibleSplitVarIDs, order \in Orders(Range(class_values)),
        rnd \in 0..(num_classes - 1) :
       LET nodeID  == next_nodeID
           samples == sampleIDs[nodeID + 1]
           r       == splitNodeInternal(nodeID, possible, order, rnd)
           n       == Len(sampleIDs)
       IN  /\ call' = [nodeID |-> nodeID, samples |-> samples, possible_split_varIDs |-> possible,
                       stop |-> r.stop, searched |-> r.searched, decrease |-> r.decrease,
                       importance_before |-> variable_importance]
           /\ variable_importance' = r.importance
           /\ next_nodeID' = nodeID + 1
           /\ IF r.stop
                THEN /\ split_values' = [split_values EXCEPT ![nodeID + 1] = r.split_value]
                     /\ num_open_nodes' = num_open_nodes - 1
                     /\ UNCHANGED <<split_varIDs, child_nodeIDs, sampleIDs>>
                ELSE /\ split_values' = [split_values EXCEPT ![nodeID + 1] = r.split_value] \o <<0, 0>>
                     /\ split_varIDs' = [split_varIDs EXCEPT ![nodeID + 1] = r.split_varID] \o <<0, 0>>
                     /\ child_nodeIDs' = << [child_nodeIDs[1] EXCEPT ![nodeID + 1] = n] \o <<0, 0>>,
                                            [child_nodeIDs[2] EXCEPT ![nodeID + 1] = n + 1] \o <<0, 0>> >>
                     /\ sampleIDs' = sampleIDs \o << SamplesLeft(samples, r.split_varID, r.split_value),
                                                     SamplesRight(samples, r.split_varID, r.split_value) >>
                     /\ num_open_nodes' = num_open_nodes + 1
  /\ pc' = "grow"
  /\ UNCHANGED <<mode, file, dataVars, min_node_size, importance_mode, no_split_variables, forestVars>>

----------------------------------------------------------------------------
(* The runs that grow a tree *)

\* rows <<x0, x1, y>> with two-valued features and a two-valued response
GenericRows == {<<a, b, y>> : a \in 0..1, b \in 0..1, y \in 0..1}

RowLess(r1, r2) ==
  \E k \in 1..Len(r1) : r1[k] < r2[k] /\ \A j \in 1..(k - 1) : r1[j] = r2[j]

\* the datasets of NumSamples rows, one for every multiset of rows
GenericData ==
  {dat \in [1..NumSamples -> GenericRows] :
     \A i \in 1..(NumSamples - 1) : dat[i] = dat[i + 1] \/ RowLess(dat[i], dat[i + 1])}

GrowSettings ==
  {[min_node_size |-> m, importance_mode |-> IMP_NONE, no_split_variables |-> <<>>] : m \in 0..2}
    \cup {[min_node_size |-> 0, importance_mode |-> IMP_GINI, no_split_variables |-> ns] :
            ns \in {<<>>, <<0, 2>>}}

GrowRuns ==
  {[data |-> dat, dependent_varID |-> 2, settings |-> st] : dat \in GenericData, st \in GrowSettings}
    \cup {[data |-> S1Data, dependent_varID |-> 1,
           settings |-> [min_node_size |-> 1, importance_mode |-> im, no_split_variables |-> <<>>]] :
            im \in {IMP_NONE, IMP_GINI}}
    \cup {[data |-> S3Data, dependent_varID |-> 2,
           settings |-> [min_node_size |-> 1, importance_mode |-> im, no_split_variables |-> <<>>]] :
            im \in {IMP_NONE, IMP_GINI}}

\* the bootstrap samples tried: every row once, and row 0 twice with the last row out of bag
Bootstraps(n) == {[i \in 1..n |-> i - 1], [i \in 1..n |-> IF i = 1 THEN 0 ELSE i - 2]}

InitGrow ==
  /\ mode = "grow"
  /\ \E run \in GrowRuns :
       /\ data = run.data
       /\ dependent_varID = run.dependent_varID
       /\ class_values = InitClasses(run.data, run.dependent_varID, Len(run.data))[1]
       /\ response_classIDs = InitClasses(run.data, run.dependent_varID, Len(run.data))[2]
       /\ min_node_size = InitMinNodeSize(run.settings.min_node_size)
       /\ importance_mode = run.settings.importance_mode
       /\ no_split_variables = run.settings.no_split_variables
       /\ variable_importance =
            [i \in 1..(Len(run.data[1]) - Len(run.settings.no_split_variables)) |-> 0]
       /\ \E bootstrap \in Bootstraps(Len(run.data)) : sampleIDs = <<bootstrap>>
  /\ split_varIDs = <<0>>
  /\ split_values = <<0>>
  /\ child_nodeIDs = << <<0>>, <<0>> >>
  /\ next_nodeID = 0
  /\ num_open_nodes = 1
  /\ call = NoCall
  /\ pc = "start"
  /\ NoForest
  /\ file = NoFile

NextGrow == SplitNode

SpecGrow == InitGrow /\ [][NextGrow]_vars

----------------------------------------------------------------------------
(* ForestClassification: prediction and out-of-bag error *)

\* a double that is a number, and the double NAN
Num(x) == [nan |-> FALSE, v |-> x]

NAN == [nan |-> TRUE, v |-> 0]

isnan(x) == x.nan

\* a != b on doubles
NotEqual(a, b) == a.nan \/ b.nan \/ a.v # b.v

num_trees == Len(trees)

\* ++map[key] on a map whose missing entries read as 0
Increment(map, key) ==
  IF key \in DOMAIN map THEN [map EXCEPT ![key] = @ + 1] ELSE map @@ (key :> 1)

EmptyMap == <<>>

RECURSIVE PredictClassCountFirstRow(_, _)
\* every tree's prediction read at index 0 instead of sample_idx
PredictClassCountFirstRow(sample_idx, n) ==
  IF n = 0 THEN EmptyMap
  ELSE Increment(PredictClassCountFirstRow(sample_idx, n - 1), trees[n].predictions[1])

RECURSIVE PredictClassCount(_, _)
\* predictInternal's class_count for a sample after the first n trees
PredictClassCount(sample_idx, n) ==
  IF n = 0 THEN EmptyMap
  ELSE Increment(PredictClassCount(sample_idx, n - 1), trees[n].predictions[sample_idx + 1])

\* mostFrequentValue of a class_count map, enumerated as the order of the
\* values says
MajorityVote(class_count, order, rnd) ==
  mostFrequentValue(class_count, KeyOrder(DOMAIN class_count, order), rnd)

\* ForestClassification::predictInternal
predictInternal ==
  /\ mode = "forest"
  /\ prediction_mode
  /\ pc = "start"
  /\ \E order \in Orders(Range(class_values)), rnd \in 0..(Len(class_values) - 1) :
       LET num_prediction_samples == Len(trees[1].predictions)
       IN  predictions' = predictions \o
             [i \in 1..num_prediction_samples |->
                <<Num(MajorityVote(PredictClassCount(i - 1, num_trees), order, rnd))>>]
  /\ pc' = "predicted"
  /\ UNCHANGED <<mode, file, dataVars, treeVars, prediction_mode, trees, class_counts,
                 classification_table, overall_prediction_error>>

\* the tally with class_counts indexed by the position in the tree's OOB list
OobCountSampleIdx(counts, tree_idx, n) ==
  [counts EXCEPT ![n] = Increment(@, trees[tree_idx + 1].predictions[n])]

\* one pass of the inner loop "loop over OOB samples and count classes":
\* sample_idx = n - 1 of tree tree_idx
OobCountSample(counts, tree_idx, n) ==
  LET sampleID == trees[tree_idx + 1].oob_sampleIDs[n]
      value    == trees[tree_idx + 1].predictions[n]
  IN  [counts EXCEPT ![sampleID + 1] = Increment(@, value)]

RECURSIVE OobCountTree(_, _, _)
\* the inner loop over the first n OOB samples of a tree
OobCountTree(counts, tree_idx, n) ==
  IF n = 0 THEN counts
  ELSE OobCountSample(OobCountTree(counts, tree_idx, n - 1), tree_idx, n)

RECURSIVE OobClassCounts(_)
\* class_counts after the first n trees
OobClassCounts(n) ==
  IF n = 0 THEN [i \in 1..num_samples |-> EmptyMap]
  ELSE OobCountTree(OobClassCounts(n - 1), n - 1, Len(trees[n].oob_sampleIDs))

\* "Compute majority vote for each sample"
OobPrediction(counts, i, order, rnd) ==
  IF DOMAIN counts[i + 1] # {}
    THEN <<Num(MajorityVote(counts[i + 1], order, rnd))>>
    ELSE <<NAN>>

RECURSIVE Compare(_, _)
\* "Compare predictions with true data": [num_missclassifications,
\* classification_table] after the first n predictions
Compare(preds, n) ==
  IF n = 0 THEN [num_missclassifications |-> 0, classification_table |-> classification_table]
  ELSE LET prev            == Compare(preds, n - 1)
           predicted_value == preds[n][1]
           real_value      == Num(get(n - 1, dependent_varID))
       IN  IF ~isnan(predicted_value)
             THEN [num_missclassifications |->
                     IF NotEqual(predicted_value, real_value)
                       THEN prev.num_missclassifications + 1
                       ELSE prev.num_missclassifications,
                   classification_table |->
                     Increment(prev.classification_table, <<real_value.v, predicted_value.v>>)]
             ELSE prev

\* overall_prediction_error = num_missclassifications / predictions.size()
OverallPredictionError(num_missclassifications, preds) ==
  [num |-> num_missclassifications, den |-> Len(preds)]

\* ForestClassification::computePredictionErrorInternal
computePredictionErrorInternal ==
  /\ mode = "forest"
  /\ ~prediction_mode
  /\ pc = "start"
  /\ \E order \in Orders(Range(class_values)), rnd \in 0..(Len(class_values) - 1) :
       LET counts == OobClassCounts(num_trees)
           preds  == predictions \o [i \in 1..num_samples |-> OobPrediction(counts, i - 1, order, rnd)]
           cmp    == Compare(preds, Len(preds))
       IN  /\ class_counts' = counts
           /\ predictions' = preds
           /\ classification_table' = cmp.classification_table
           /\ overall_prediction_error' = OverallPredictionError(cmp.num_missclassifications, preds)
  /\ pc' = "evaluated"
  /\ UNCHANGED <<mode, file, dataVars, treeVars, prediction_mode, trees>>

\* what a tree holds after Tree::predict on its out-of-bag samples: the
\* sorted OOB sample IDs and one predicted class value for each
OobTrees(n, classes) ==
  {[oob_sampleIDs |-> SortedSeq(S), predictions |-> p] :
     S \in SUBSET (0..(n - 1)), p \in UNION {[1..k -> classes] : k \in 0..n}} 

\* the class values of a loaded forest
LoadedClassValues == <<0, 1>>

NoTree ==
  /\ min_node_size = 1
  /\ importance_mode = IMP_NONE
  /\ no_split_variables = <<>>
  /\ sampleIDs = <<>>
  /\ split_varIDs = <<>>
  /\ split_values = <<>>
  /\ child_nodeIDs = << <<>>, <<>> >>
  /\ variable_importance = <<>>
  /\ next_nodeID = 0
  /\ num_open_nodes = 0
  /\ call = NoCall

InitForest ==
  /\ mode = "forest"
  /\ pc = "start"
  /\ file = NoFile
  /\ NoTree
  /\ dependent_varID = 0
  /\ predictions = <<>>
  /\ class_counts = <<>>
  /\ classification_table = EmptyMap
  /\ overall_prediction_error = [num |-> 0, den |-> 1]
  /\ \/ /\ prediction_mode = FALSE
        /\ data \in [1..NumForestSamples -> {<<0>>, <<1>>}]
        /\ class_values = InitClasses(data, 0, Len(data))[1]
        /\ response_classIDs = InitClasses(data, 0, Len(data))[2]
        /\ trees \in [1..NumOobTrees ->
                        {t \in OobTrees(NumForestSamples, Range(class_values)) :
                           Len(t.predictions) = Len(t.oob_sampleIDs)}]
     \/ /\ prediction_mode = TRUE
        /\ data = [i \in 1..NumForestSamples |-> <<0>>]
        /\ class_values = LoadedClassValues
        /\ response_classIDs = <<>>
        /\ trees \in [1..NumPredictTrees ->
                        {[oob_sampleIDs |-> <<>>, predictions |-> p] :
                           p \in [1..NumForestSamples -> Range(LoadedClassValues)]}]

NextForest == predictInternal \/ computePredictionErrorInternal

SpecForest == InitForest /\ [][NextForest]_vars

----------------------------------------------------------------------------
(* ForestClassification::loadFromFileInternal *)

\* the tree type tags of a forest file
TREE_CLASSIFICATION == 1

TREE_REGRESSION == 3

\* the reconciliation with "varID > dependent_varID"
ReconcileAbove(varID, num_variables_saved) ==
  IF num_variables_saved > num_variables
    THEN IF varID > dependent_varID THEN (varID - 1) % SizeMod ELSE varID
    ELSE varID

\* "If dependent variable not in test data, change variable IDs accordingly":
\* one varID of split_varIDs
Reconcile(varID, num_variables_saved) ==
  IF num_variables_saved > num_variables
    THEN IF varID >= dependent_varID THEN (varID - 1) % SizeMod ELSE varID
    ELSE varID

\* the tree created from what was read for it
LoadTree(saved, num_variables_saved) ==
  [child_nodeIDs |-> saved.child_nodeIDs,
   split_varIDs  |-> [n \in 1..Len(saved.split_varIDs) |->
                        Reconcile(saved.split_varIDs[n], num_variables_saved)],
   split_values  |-> saved.split_values]

loadFromFileInternal ==
  /\ mode = "load"
  /\ pc = "start"
  /\ \/ /\ file.treetype # TREE_CLASSIFICATION
        \* throw std::runtime_error("Wrong treetype. ...")
        /\ pc' = "error"
        /\ UNCHANGED <<class_values, trees>>
     \/ /\ file.treetype = TREE_CLASSIFICATION
        /\ class_values' = file.class_values
        /\ trees' = trees \o [i \in 1..file.num_trees |-> LoadTree(file.trees[i], file.num_variables)]
        /\ pc' = "loaded"
  /\ UNCHANGED <<mode, file, data, dependent_varID, response_classIDs, treeVars, prediction_mode,
                 predictions, class_counts, classification_table, overall_prediction_error>>

\* the trees a forest file of num_variables_saved columns can hold here: a
\* single leaf, or a root split on any variable with two leaves; a leaf's
\* split_varID is the 0 of Tree::createEmptyNode
SavedTrees(num_variables_saved) ==
  {[child_nodeIDs |-> << <<0>>, <<0>> >>, split_varIDs |-> <<0>>, split_values |-> <<1>>]}
    \cup {[child_nodeIDs |-> << <<1, 0, 0>>, <<2, 0, 0>> >>, split_varIDs |-> <<v, 0, 0>>,
           split_values |-> <<5, 0, 1>>] : v \in 0..(num_variables_saved - 1)}

InitLoad ==
  /\ mode = "load"
  /\ pc = "start"
  /\ NoTree
  /\ prediction_mode = TRUE
  /\ trees = <<>>
  /\ predictions = <<>>
  /\ class_counts = <<>>
  /\ classification_table = EmptyMap
  /\ overall_prediction_error = [num |-> 0, den |-> 1]
  /\ class_values = <<>>
  /\ response_classIDs = <<>>
  /\ \E saved \in 1..MaxVariables, current \in 1..MaxVariables :
       /\ data = << [c \in 1..current |-> 0] >>
       /\ \E type \in {TREE_CLASSIFICATION, TREE_REGRESSION},
             saved_trees \in [1..NumSavedTrees -> SavedTrees(saved)] :
            file = [num_trees |-> NumSavedTrees, num_variables |-> saved, treetype |-> type,
                    class_values |-> <<0, 1>>, trees |-> saved_trees]
  /\ dependent_varID \in 0..(MaxVariables - 1)

NextLoad == loadFromFileInternal

SpecLoad == InitLoad /\ [][NextLoad]_vars

----------------------------------------------------------------------------
(* Every run of the program looked at *)

Init == InitGrow \/ InitForest \/ InitLoad

Next == NextGrow \/ NextForest \/ NextLoad

Spec == Init /\ [][Next]_vars

----------------------------------------------------------------------------
(* What the claims speak of, stated without the splitter's own operators *)

\* a splitNodeInternal call has been made
Called == call.nodeID >= 0

RECURSIVE SumOver(_, _)
\* the sum of f[x] over the finite set S
SumOver(f, S) ==
  IF S = {} THEN 0 ELSE LET x == CHOOSE y \in S : TRUE IN f[x] + SumOver(f, S \ {x})

ResponsesOf(samples) == {response(samples[i]) : i \in 1..Len(samples)}

\* the positions of the samples on the left (side = TRUE) or right of (varID, theta)
Side(samples, varID, theta, side) ==
  {i \in 1..Len(samples) : (get(samples[i], varID) <= theta) = side}

\* the sum over the classes of the squared class counts among the positions P
SquaredCounts(samples, P) ==
  SumOver([c \in ResponsesOf(samples) |->
             Cardinality({i \in P : response(samples[i]) = c})
               * Cardinality({i \in P : response(samples[i]) = c})],
          ResponsesOf(samples))

\* the score (sum_k L_k^2) / |L| + (sum_k R_k^2) / |R| as a fraction <<numerator, denominator>>
Score(samples, varID, theta) ==
  LET L == Side(samples, varID, theta, TRUE)
      R == Side(samples, varID, theta, FALSE)
  IN  << SquaredCounts(samples, L) * Cardinality(R) + SquaredCounts(samples, R) * Cardinality(L),
         Cardinality(L) * Cardinality(R) >>

FractionLess(p, q) == p[1] * q[2] < q[1] * p[2]

\* the candidate (variable, threshold) pairs of a call with two non-empty children
Candidates(samples, possible) ==
  {c \in Range(possible) \X {get(samples[i], v) : i \in 1..Len(samples), v \in Range(possible)} :
     /\ \E i \in 1..Len(samples) : get(samples[i], c[1]) = c[2]
     /\ Side(samples, c[1], c[2], TRUE) # {}
     /\ Side(samples, c[1], c[2], FALSE) # {}}

PositionIn(seq, x) == CHOOSE k \in 1..Len(seq) : seq[k] = x

\* candidate c1 is tried before candidate c2
TriedBefore(possible, c1, c2) ==
  \/ PositionIn(possible, c1[1]) < PositionIn(possible, c2[1])
  \/ c1[1] = c2[1] /\ c1[2] < c2[2]

\* the split stored for the node of the last call
StoredSplit == <<split_varIDs[call.nodeID + 1], split_values[call.nodeID + 1]>>

\* C2: determinism of findBestSplit -- the split stored for a node is the one
\* findBestSplit finds for the same node samples and the same candidate
\* variable set in every order in which that set can be enumerated.
C2_SplitIndependentOfEnumeration ==
  (Called /\ call.searched /\ ~call.stop) =>
     \A other \in Orders(Range(call.possible_split_varIDs)) :
        LET r == findBestSplit(call.samples, other)
        IN  ~r.stop /\ <<r.varID, r.value>> = StoredSplit

\* C5: partition non-degeneracy -- every node for which a split was stored
\* has at least one sample at or below the threshold and at least one above
\* it, and so have its two children at least one sample each.
C5_PartitionNonDegenerate ==
  \A n \in 1..Len(sampleIDs) :
     child_nodeIDs[1][n] # 0 =>
        /\ \E i \in 1..Len(sampleIDs[n]) : get(sampleIDs[n][i], split_varIDs[n]) <= split_values[n]
        /\ \E i \in 1..Len(sampleIDs[n]) : get(sampleIDs[n][i], split_varIDs[n]) > split_values[n]
        /\ sampleIDs[child_nodeIDs[1][n] + 1] # <<>>
        /\ sampleIDs[child_nodeIDs[2][n] + 1] # <<>>

\* a node was split
C5_Witness == Called /\ call.searched /\ ~call.stop /\ child_nodeIDs[1][call.nodeID + 1] # 0

\* C6: leaf purity of pure nodes -- a non-empty node whose samples share one
\* response value becomes a leaf without a search for a split and stores
\* that value, whatever min_node_size and the node's size; when all rows
\* share the response the grown tree is that single leaf.
C6_PureNodeIsLeaf ==
  /\ (Called /\ call.samples # <<>> /\ Cardinality(ResponsesOf(call.samples)) = 1) =>
        /\ call.stop
        /\ ~call.searched
        /\ split_values[call.nodeID + 1] \in ResponsesOf(call.samples)
        /\ child_nodeIDs[1][call.nodeID + 1] = 0
        /\ child_nodeIDs[2][call.nodeID + 1] = 0
  /\ (Called /\ Cardinality({response(i) : i \in 0..(num_samples - 1)}) = 1) =>
        /\ Len(split_values) = 1
        /\ split_values[1] = response(0)
        /\ num_open_nodes = 0

\* a pure node larger than min_node_size, of the class that is not 0
C6_Witness ==
  /\ Called
  /\ Len(call.samples) > min_node_size
  /\ ResponsesOf(call.samples) = {1}

\* C8: best split -- when findBestSplit runs it reports no split exactly when
\* no candidate pair has two non-empty children; otherwise the stored pair is
\* such a candidate, no candidate has a greater score, and every candidate
\* tried before it has a smaller one (first-seen wins).  On the S1 dataset
\* the root is split on variable 0 at threshold 3.
C8_BestSplit ==
  /\ (Called /\ call.searched) =>
        LET cands == Candidates(call.samples, call.possible_split_varIDs)
        IN  /\ call.stop <=> cands = {}
            /\ ~call.stop =>
                 /\ StoredSplit \in cands
                 /\ \A c \in cands :
                      ~FractionLess(Score(call.samples, StoredSplit[1], StoredSplit[2]),
                                    Score(call.samples, c[1], c[2]))
                 /\ \A c \in cands :
                      TriedBefore(call.possible_split_varIDs, c, StoredSplit) =>
                        FractionLess(Score(call.samples, c[1], c[2]),
                                     Score(call.samples, StoredSplit[1], StoredSplit[2]))
  /\ (data = S1Data /\ call.nodeID = 0 /\ call.samples = <<0, 1, 2, 3, 4, 5>>) =>
        ~call.stop /\ StoredSplit = <<0, 3>>

\* the root of S1 was split
C8_Witness ==
  data = S1Data /\ call.nodeID = 0 /\ call.samples = <<0, 1, 2, 3, 4, 5>> /\ call.searched

\* C9: Gini importance -- a split in mode GINI changes exactly the entry at
\* index v* minus the number of no_split_variables below v*, by the best
\* score minus (sum_k count_k^2) / |samples|; no other call and no call in
\* mode NONE changes the vector.
C9_GiniImportance ==
  Called =>
    IF importance_mode = IMP_GINI /\ ~call.stop
      THEN LET v     == StoredSplit[1]
               index == v - Cardinality({k \in 1..Len(no_split_variables) : no_split_variables[k] < v})
               score == Score(call.samples, v, StoredSplit[2])
               n     == Len(call.samples)
           IN  /\ index + 1 \in DOMAIN variable_importance
               /\ DOMAIN variable_importance = DOMAIN call.importance_before
               /\ \A j \in DOMAIN variable_importance :
                    j # index + 1 => variable_importance[j] = call.importance_before[j]
               \* (new - old) / Scale = score - squares / n, multiplied out
               /\ (variable_importance[index + 1] - call.importance_before[index + 1]) * score[2] * n
                    = Scale * (score[1] * n - SquaredCounts(call.samples, 1..n) * score[2])
      ELSE variable_importance = call.importance_before

\* a split in mode GINI on a variable with a no-split variable below it
C9_Witness ==
  /\ Called /\ ~call.stop /\ importance_mode = IMP_GINI
  /\ \E k \in 1..Len(no_split_variables) : no_split_variables[k] < StoredSplit[1]
  /\ variable_importance # call.importance_before

\* the OOB prediction of sample i is defined
Defined(i) == ~isnan(predictions[i + 1][1])

\* the trees that have sample i out of bag
OobTreesOf(i) == {t \in 1..num_trees : i \in Range(trees[t].oob_sampleIDs)}

\* what tree t predicts for its out-of-bag sample i
TreePrediction(t, i) ==
  trees[t].predictions[PositionIn(trees[t].oob_sampleIDs, i)]

MapCount(map, key) == IF key \in DOMAIN map THEN map[key] ELSE 0

\* C1: the out-of-bag error is the number of samples whose defined
\* prediction differs from the true response, divided by the number of
\* samples whose prediction is defined.
C1_ErrorOverDefinedSamples ==
  pc = "evaluated" =>
    LET defined       == {i \in 0..(num_samples - 1) : Defined(i)}
        misclassified == {i \in defined : predictions[i + 1][1].v # get(i, dependent_varID)}
    IN  defined # {} =>
          overall_prediction_error.num * Cardinality(defined)
            = Cardinality(misclassified) * overall_prediction_error.den

\* C3: predictInternal leaves one prediction for every input row, in row
\* order, and each is a class value that some tree voted for and that no
\* other class value outvotes.
C3_MajorityVote ==
  pc = "predicted" =>
    /\ Len(predictions) = Len(trees[1].predictions)
    /\ \A r \in 1..Len(predictions) :
         LET votes(c) == Cardinality({t \in 1..num_trees : trees[t].predictions[r] = c})
         IN  /\ Len(predictions[r]) = 1
             /\ ~isnan(predictions[r][1])
             /\ votes(predictions[r][1].v) > 0
             /\ \A c \in Range(class_values) : votes(c) <= votes(predictions[r][1].v)

\* predictions were made for a row with a clear majority and a row with a tie
C3_Witness ==
  /\ pc = "predicted"
  /\ \E r \in 1..Len(predictions) :
       Cardinality({t \in 1..num_trees : trees[t].predictions[r] = 0}) = 1
  /\ \E r \in 1..Len(predictions) :
       2 * Cardinality({t \in 1..num_trees : trees[t].predictions[r] = 0}) = num_trees

\* C4: the tally of sample i holds one vote of every tree that has i out of
\* bag, that tree's prediction for i, and nothing else; the prediction of i
\* is NAN exactly when no tree has i out of bag; the confusion table holds
\* one count at (true class, predicted class) for every defined sample.
C4_OobTally ==
  pc = "evaluated" =>
    /\ Len(class_counts) = num_samples
    /\ Len(predictions) = num_samples
    /\ \A i \in 0..(num_samples - 1) :
         /\ \A c \in Range(class_values) :
              MapCount(class_counts[i + 1], c)
                = Cardinality({t \in OobTreesOf(i) : TreePrediction(t, i) = c})
         /\ DOMAIN class_counts[i + 1] \subseteq Range(class_values)
         /\ isnan(predictions[i + 1][1]) <=> OobTreesOf(i) = {}
    /\ DOMAIN classification_table \subseteq Range(class_values) \X Range(class_values)
    /\ \A real \in Range(class_values), predicted \in Range(class_values) :
         MapCount(classification_table, <<real, predicted>>)
           = Cardinality({i \in 0..(num_samples - 1) :
                            /\ Defined(i)
                            /\ get(i, dependent_varID) = real
                            /\ predictions[i + 1][1].v = predicted})

\* a sample no tree has out of bag and a sample that is out of bag in two
\* trees that disagree
C4_Witness ==
  /\ pc = "evaluated"
  /\ \E i \in 0..(num_samples - 1) : OobTreesOf(i) = {}
  /\ \E i \in 0..(num_samples - 1) :
       /\ Cardinality(OobTreesOf(i)) = 2
       /\ Cardinality({TreePrediction(t, i) : t \in OobTreesOf(i)}) = 2

\* the nodes of the saved trees: <<tree, node>>
SavedNodes ==
  {tn \in (1..file.num_trees) \X (1..3) : tn[2] <= Len(file.trees[tn[1]].split_varIDs)}

\* C7: load reconciliation -- when the saved variable count exceeds the
\* dataset's, a split variable ID at or above dependent_varID is loaded
\* decremented by one (as a size_t) and one below it unchanged; otherwise
\* every split variable ID is loaded unchanged; child links and split values
\* are loaded unchanged in both cases.
C7_LoadReconciliation ==
  pc = "loaded" =>
    /\ Len(trees) = file.num_trees
    /\ \A t \in 1..file.num_trees :
         /\ trees[t].child_nodeIDs = file.trees[t].child_nodeIDs
         /\ trees[t].split_values = file.trees[t].split_values
         /\ Len(trees[t].split_varIDs) = Len(file.trees[t].split_varIDs)
    /\ \A tn \in SavedNodes :
         LET saved  == file.trees[tn[1]].split_varIDs[tn[2]]
             loaded == trees[tn[1]].split_varIDs[tn[2]]
         IN  IF file.num_variables > num_variables /\ saved >= dependent_varID
               THEN (loaded + 1) % SizeMod = saved
               ELSE loaded = saved

\* a forest was loaded with the ID of the dependent variable and one above
\* it decremented and one below it kept
C7_Witness ==
  /\ pc = "loaded"
  /\ file.num_variables > num_variables
  /\ \E tn \in SavedNodes :
       /\ file.trees[tn[1]].split_varIDs[tn[2]] = dependent_varID
       /\ trees[tn[1]].split_varIDs[tn[2]] + 1 = file.trees[tn[1]].split_varIDs[tn[2]]
  /\ \E tn \in SavedNodes :
       /\ file.trees[tn[1]].split_varIDs[tn[2]] > dependent_varID
       /\ trees[tn[1]].split_varIDs[tn[2]] + 1 = file.trees[tn[1]].split_varIDs[tn[2]]
  /\ \E tn \in SavedNodes :
       /\ file.trees[tn[1]].split_varIDs[tn[2]] < dependent_varID
       /\ trees[tn[1]].split_varIDs[tn[2]] = file.trees[tn[1]].split_varIDs[tn[2]]

\* C10: when every saved split variable ID is below the saved variable count
\* and no internal node splits on the dependent variable, every loaded split
\* variable ID, those of leaves included, is a column index of the dataset:
\* the decrement never wraps around.
C10_LoadedVarIDsValid ==
  (/\ pc = "loaded"
   /\ \A tn \in SavedNodes :
        /\ file.trees[tn[1]].split_varIDs[tn[2]] \in 0..(file.num_variables - 1)
        /\ file.trees[tn[1]].child_nodeIDs[1][tn[2]] # 0 =>
             file.trees[tn[1]].split_varIDs[tn[2]] # dependent_varID)
    => \A tn \in SavedNodes : trees[tn[1]].split_varIDs[tn[2]] \in 0..(num_variables - 1)

====
